---- MODULE Spec2Model ----
(***************************************************************************)
(* A model of src/automata.py: Wolfram's Rule 30 (rule_thirty) and         *)
(* Conway's Game of Life with a dead border (life) and on a doubly         *)
(* periodic mesh (life_periodic).                                          *)
(*                                                                         *)
(* One call of one of the three functions is a behaviour: the arguments    *)
(* are chosen in the initial state, the history buffer current_state is    *)
(* allocated by the Call action, every execution of the while body is one  *)
(* Iterate action, and the call ends by returning an array, by returning   *)
(* None (falling off the end of the function) or by raising IndexError.    *)
(* Arrays keep the 0-based indices of the source: a lattice of length L    *)
(* is a function on 0..L-1.                                                *)
(***************************************************************************)
EXTENDS Integers, FiniteSets, Sequences, TLC

VARIABLES
    fn,             \* the function that was called
    initial_state,  \* argument initial_state
    nsteps,         \* argument nsteps
    periodic,       \* argument periodic (rule_thirty only)
    current_state,  \* the history buffer, one lattice per generation
    current_step,   \* the loop counter
    pc,             \* position of the call
    result          \* the returned array, once pc = "returned"

vars == <<fn, initial_state, nsteps, periodic, current_state, current_step, pc, result>>

\* Bounds of the model.
MaxLen == 5
MaxSteps == 3
MaxRows == 2
MaxCols == 3
MaxBlockDim == 5
GridDim == 3

(***************************************************************************)
(* Shapes                                                                  *)
(***************************************************************************)

\* len(initial_state), rows = initial_state.shape[0]
Size(a) == Cardinality(DOMAIN a)

\* cols = initial_state.shape[1]
Cols(grid) == Size(grid[0])

Lattices(len) == [0..len-1 -> BOOLEAN]

Grids(r, c) == [0..r-1 -> [0..c-1 -> BOOLEAN]]

\* The value a variable holds before it is assigned.
Unset == <<>>

(***************************************************************************)
(* rule_thirty                                                             *)
(***************************************************************************)

\* The same table with the entry of (True, False, False) flipped.
thirty_rule_flipped ==
       (<<TRUE, TRUE, TRUE>> :> FALSE)   @@ (<<TRUE, TRUE, FALSE>> :> FALSE)
    @@ (<<TRUE, FALSE, TRUE>> :> FALSE)  @@ (<<TRUE, FALSE, FALSE>> :> FALSE)
    @@ (<<FALSE, TRUE, TRUE>> :> TRUE)   @@ (<<FALSE, TRUE, FALSE>> :> TRUE)
    @@ (<<FALSE, FALSE, TRUE>> :> TRUE)  @@ (<<FALSE, FALSE, FALSE>> :> FALSE)

\* The dictionary thirty_rule, keyed by (left, centre, right).
thirty_rule ==
       (<<TRUE, TRUE, TRUE>> :> FALSE)   @@ (<<TRUE, TRUE, FALSE>> :> FALSE)
    @@ (<<TRUE, FALSE, TRUE>> :> FALSE)  @@ (<<TRUE, FALSE, FALSE>> :> TRUE)
    @@ (<<FALSE, TRUE, TRUE>> :> TRUE)   @@ (<<FALSE, TRUE, FALSE>> :> TRUE)
    @@ (<<FALSE, FALSE, TRUE>> :> TRUE)  @@ (<<FALSE, FALSE, FALSE>> :> FALSE)

\* np.full((nsteps, L), False) followed by current_state[0, :] = initial_state
R30Buffer(init, n) ==
    [g \in 0..n-1 |-> [i \in 0..Size(init)-1 |-> IF g = 0 THEN init[i] ELSE FALSE]]

\* The for loop written in place: it stores into the generation it reads.
RECURSIVE R30ForLoopInPlace(_, _, _, _)
R30ForLoopInPlace(b, step, i, len) ==
    IF i > len - 2 THEN b
    ELSE R30ForLoopInPlace(
            [b EXCEPT ![step][i] =
                thirty_rule[<<b[step][i-1], b[step][i], b[step][i+1]>>]],
            step, i + 1, len)

\* for i in range(1, L-1): one store per cell, in the order of the loop,
\* each reading the buffer as the stores before it left it.
RECURSIVE R30ForLoop(_, _, _, _)
R30ForLoop(b, step, i, len) ==
    IF i > len - 2 THEN b
    ELSE R30ForLoop(
            [b EXCEPT ![step+1][i] =
                thirty_rule[<<b[step][i-1], b[step][i], b[step][i+1]>>]],
            step, i + 1, len)

\* The two boundary stores of the periodic branch, cell 0 then cell L-1.
R30PeriodicEnds(b, step, len) ==
    LET b1 == [b EXCEPT ![step+1][0] =
                  thirty_rule[<<b[step][len-1], b[step][0], b[step][1]>>]]
    IN  [b1 EXCEPT ![step+1][len-1] =
            thirty_rule[<<b1[step][len-2], b1[step][len-1], b1[step][0]>>]]

\* The two boundary stores of the else branch, cell 0 then cell L-1.
R30FixedEnds(b, step, len) ==
    LET b1 == [b EXCEPT ![step+1][0] =
                  thirty_rule[<<FALSE, b[step][0], b[step][1]>>]]
    IN  [b1 EXCEPT ![step+1][len-1] =
            thirty_rule[<<b1[step][len-2], b1[step][len-1], FALSE>>]]

\* The body of the while loop, up to the increment of current_step.
R30Body(b, step, len, per) ==
    LET inner == R30ForLoop(b, step, 1, len)
    IN  IF per THEN R30PeriodicEnds(inner, step, len)
               ELSE R30FixedEnds(inner, step, len)

\* while current_step <= nsteps - 2
WhileGuard(step, n) == step <= n - 2

\* With a single cell the boundary read current_state[current_step, 1] is
\* out of bounds in both branches; the for loop is empty, so nothing has
\* been stored when IndexError is raised.
R30OutOfBounds(len) == len < 2

R30Call ==
    /\ pc = "entry"
    /\ fn = "rule_thirty"
    /\ current_state' = R30Buffer(initial_state, nsteps)
    /\ current_step' = 0
    /\ pc' = "while"
    /\ UNCHANGED <<fn, initial_state, nsteps, periodic, result>>

R30Iterate ==
    /\ pc = "while"
    /\ fn = "rule_thirty"
    /\ WhileGuard(current_step, nsteps)
    /\ ~R30OutOfBounds(Size(initial_state))
    /\ current_state' = R30Body(current_state, current_step, Size(initial_state), periodic)
    /\ current_step' = current_step + 1
    /\ UNCHANGED <<fn, initial_state, nsteps, periodic, pc, result>>

R30IndexError ==
    /\ pc = "while"
    /\ fn = "rule_thirty"
    /\ WhileGuard(current_step, nsteps)
    /\ R30OutOfBounds(Size(initial_state))
    /\ pc' = "raised_IndexError"
    /\ UNCHANGED <<fn, initial_state, nsteps, periodic, current_state, current_step, result>>

R30Return ==
    /\ pc = "while"
    /\ fn = "rule_thirty"
    /\ ~WhileGuard(current_step, nsteps)
    /\ result' = current_state[nsteps-1]
    /\ pc' = "returned"
    /\ UNCHANGED <<fn, initial_state, nsteps, periodic, current_state, current_step>>

(***************************************************************************)
(* life                                                                    *)
(***************************************************************************)

\* np.full((nsteps, rows+2, cols+2), False) followed by
\* current_state[0, 1:rows+1, 1:cols+1] = initial_state
LifeBuffer(init, n) ==
    [g \in 0..n-1 |->
        [i \in 0..Size(init)+1 |->
            [j \in 0..Cols(init)+1 |->
                IF g = 0 /\ i \in 1..Size(init) /\ j \in 1..Cols(init)
                THEN init[i-1][j-1] ELSE FALSE]]]

\* The slice [1:rows+1, 1:cols+1] of one generation.
Interior(lat, rows, cols) ==
    [i \in 0..rows-1 |-> [j \in 0..cols-1 |-> lat[i+1][j+1]]]

\* The list neighbors_list built for cell (i, j) from generation step.
neighbors_list(b, step, i, j) ==
    << b[step][i-1][j-1], b[step][i-1][j], b[step][i-1][j+1],
       b[step][i][j-1],                    b[step][i][j+1],
       b[step][i+1][j-1], b[step][i+1][j], b[step][i+1][j+1] >>

\* neighbors_list.count(True)
CountTrue(list) == Cardinality({k \in 1..Len(list) : list[k]})

\* `x is True` and `x is False` for an element x read from the ndarray:
\* x is a numpy.bool_ scalar, which is neither of the Python objects True and
\* False, so the identity test fails whatever the value of x.
ScalarIs(x, pyobject) == FALSE

\* The body of the inner for loop: cell (i, j) of generation step+1.
LifeCell(b, step, i, j) ==
    LET num_alive == CountTrue(neighbors_list(b, step, i, j))
    IN  IF ScalarIs(b[step][i][j], TRUE)
        THEN [b EXCEPT ![step+1][i][j] = (num_alive = 2 \/ num_alive = 3)]
        ELSE IF ScalarIs(b[step][i][j], FALSE)
             THEN [b EXCEPT ![step+1][i][j] = (num_alive = 3)]
             ELSE b

\* for j in range(1, cols+1)
RECURSIVE LifeForJ(_, _, _, _, _)
LifeForJ(b, step, i, j, cols) ==
    IF j > cols THEN b
    ELSE LifeForJ(LifeCell(b, step, i, j), step, i, j + 1, cols)

\* for i in range(1, rows+1)
RECURSIVE LifeForI(_, _, _, _, _)
LifeForI(b, step, i, rows, cols) ==
    IF i > rows THEN b
    ELSE LifeForI(LifeForJ(b, step, i, 1, cols), step, i + 1, rows, cols)

LifeCall ==
    /\ pc = "entry"
    /\ fn = "life"
    /\ current_state' = LifeBuffer(initial_state, nsteps)
    /\ current_step' = 0
    /\ pc' = "while"
    /\ UNCHANGED <<fn, initial_state, nsteps, periodic, result>>

\* The body of the while loop ends in the return statement: the first
\* iteration returns generation nsteps-1 of the buffer.
LifeIterate ==
    /\ pc = "while"
    /\ fn = "life"
    /\ WhileGuard(current_step, nsteps)
    /\ current_state' =
          LifeForI(current_state, current_step, 1, Size(initial_state), Cols(initial_state))
    /\ current_step' = current_step + 1
    /\ result' = Interior(current_state'[nsteps-1], Size(initial_state), Cols(initial_state))
    /\ pc' = "returned"
    /\ UNCHANGED <<fn, initial_state, nsteps, periodic>>

\* The loop test fails on entry and the function ends without a return
\* statement: the call evaluates to None.
LifeFallOff ==
    /\ pc = "while"
    /\ fn = "life"
    /\ ~WhileGuard(current_step, nsteps)
    /\ pc' = "returned_None"
    /\ UNCHANGED <<fn, initial_state, nsteps, periodic, current_state, current_step, result>>

(***************************************************************************)
(* life_periodic                                                           *)
(***************************************************************************)

\* current_state[g, dst, :] = current_state[g, src, :]
CopyRow(b, g, dst, src) == [b EXCEPT ![g][dst] = b[g][src]]

\* current_state[g, :, dst] = current_state[g, :, src]
CopyCol(b, g, dst, src) ==
    [b EXCEPT ![g] = [i \in DOMAIN b[g] |-> [b[g][i] EXCEPT ![dst] = b[g][i][src]]]]

\* The buffer after the four border statements that follow its allocation;
\* the first of them copies the single cell [rows, 1] to [0, 1].
LifePBuffer(init, n) ==
    LET rows == Size(init)
        cols == Cols(init)
        b0 == LifeBuffer(init, n)
        b1 == [b0 EXCEPT ![0][0][1] = b0[0][rows][1]]
        b2 == CopyRow(b1, 0, rows + 1, 1)
        b3 == CopyCol(b2, 0, 0, cols)
    IN  CopyCol(b3, 0, cols + 1, 1)

\* One pass of the outer for loop. The inner loop only rebuilds
\* neighbors_list; the count and the test follow it, at the outer level,
\* with j left at cols.
LifePRow(b, step, i, cols) ==
    LET j == cols
        num_alive == CountTrue(neighbors_list(b, step, i, j))
    IN  IF ScalarIs(b[step][i][j], TRUE)
        THEN [b EXCEPT ![step+1][i][j] = (num_alive = 2 \/ num_alive = 3)]
        ELSE IF ScalarIs(b[step][i][j], FALSE)
             THEN [b EXCEPT ![step+1][i][j] = (num_alive = 3)]
             ELSE b

\* for i in range(1, rows+1)
RECURSIVE LifePForI(_, _, _, _, _)
LifePForI(b, step, i, rows, cols) ==
    IF i > rows THEN b
    ELSE LifePForI(LifePRow(b, step, i, cols), step, i + 1, rows, cols)

\* The four statements that refresh the border of generation g.
LifePRefresh(b, g, rows, cols) ==
    LET b1 == CopyRow(b, g, 0, rows)
        b2 == CopyRow(b1, g, rows + 1, 1)
        b3 == CopyCol(b2, g, 0, cols)
    IN  CopyCol(b3, g, cols + 1, 1)

LifePCall ==
    /\ pc = "entry"
    /\ fn = "life_periodic"
    /\ current_state' = LifePBuffer(initial_state, nsteps)
    /\ current_step' = 0
    /\ pc' = "while"
    /\ UNCHANGED <<fn, initial_state, nsteps, periodic, result>>

LifePIterate ==
    /\ pc = "while"
    /\ fn = "life_periodic"
    /\ WhileGuard(current_step, nsteps)
    /\ current_state' =
          LifePRefresh(
              LifePForI(current_state, current_step, 1,
                        Size(initial_state), Cols(initial_state)),
              current_step + 1, Size(initial_state), Cols(initial_state))
    /\ current_step' = current_step + 1
    /\ UNCHANGED <<fn, initial_state, nsteps, periodic, pc, result>>

LifePReturn ==
    /\ pc = "while"
    /\ fn = "life_periodic"
    /\ ~WhileGuard(current_step, nsteps)
    /\ result' = Interior(current_state[nsteps-1], Size(initial_state), Cols(initial_state))
    /\ pc' = "returned"
    /\ UNCHANGED <<fn, initial_state, nsteps, periodic, current_state, current_step>>

(***************************************************************************)
(* Calls                                                                   *)
(***************************************************************************)

\* The state of a call on entry, before any statement of the body has run.
Entry(f, init, n, per) ==
    /\ fn = f
    /\ initial_state = init
    /\ nsteps = n
    /\ periodic = per
    /\ current_state = Unset
    /\ current_step = 0
    /\ pc = "entry"
    /\ result = Unset

\* rule_thirty(initial_state, nsteps, periodic)
InitR30 ==
    \E init \in UNION {Lattices(len) : len \in 1..MaxLen} :
    \E n \in 1..MaxSteps : \E per \in BOOLEAN :
        Entry("rule_thirty", init, n, per)

\* life(initial_state, nsteps) and life_periodic(initial_state, nsteps)
InitLife ==
    \E f \in {"life", "life_periodic"} :
    \E init \in UNION {Grids(r, c) : r \in 1..MaxRows, c \in 1..MaxCols} :
    \E n \in 1..MaxSteps :
        Entry(f, init, n, FALSE)

\* An r by c grid whose only alive cells are the 2 by 2 block with top left
\* corner (top, left).
BlockGrid(r, c, top, left) ==
    [i \in 0..r-1 |-> [j \in 0..c-1 |-> i \in {top, top+1} /\ j \in {left, left+1}]]

\* The grids holding one block that touches no edge of the grid.
BlockGrids ==
    {BlockGrid(r, c, top, left) :
        <<r, c, top, left>> \in
            {q \in (1..MaxBlockDim) \X (1..MaxBlockDim) \X (1..MaxBlockDim) \X (1..MaxBlockDim) :
                q[3] <= q[1] - 3 /\ q[4] <= q[2] - 3}}

\* life and life_periodic called on a block.
InitBlock ==
    \E f \in {"life", "life_periodic"} :
    \E init \in BlockGrids :
    \E n \in 1..MaxSteps :
        Entry(f, init, n, FALSE)

\* life_periodic called on a square grid of GridDim rows, on which the eight
\* wrapped neighbours of a cell are eight different cells.
InitTorus ==
    \E init \in Grids(GridDim, GridDim) :
    \E n \in 1..MaxSteps :
        Entry("life_periodic", init, n, FALSE)

Init == InitR30 \/ InitLife

Next ==
    \/ R30Call \/ R30Iterate \/ R30IndexError \/ R30Return
    \/ LifeCall \/ LifeIterate \/ LifeFallOff
    \/ LifePCall \/ LifePIterate \/ LifePReturn

Spec == Init /\ [][Next]_vars

NextLife ==
    \/ LifeCall \/ LifeIterate \/ LifeFallOff
    \/ LifePCall \/ LifePIterate \/ LifePReturn

SpecBlock == InitBlock /\ [][NextLife]_vars

NextTorus == LifePCall \/ LifePIterate \/ LifePReturn

SpecTorus == InitTorus /\ [][NextTorus]_vars

(***************************************************************************)
(* Reference semantics used to state the properties                        *)
(***************************************************************************)

Xor(a, b) == a # b

\* A 0-based lattice from a tuple.
Lat(seq) == [i \in 0..Len(seq)-1 |-> seq[i+1]]

\* The left and right neighbours of cell i under the two boundary policies.
R30Left(s, i, per) ==
    IF i = 0 THEN (IF per THEN s[Size(s)-1] ELSE FALSE) ELSE s[i-1]

R30Right(s, i, per) ==
    IF i = Size(s) - 1 THEN (IF per THEN s[0] ELSE FALSE) ELSE s[i+1]

\* One Rule 30 transition: left XOR (centre OR right).
R30Next(s, per) ==
    [i \in DOMAIN s |-> Xor(R30Left(s, i, per), s[i] \/ R30Right(s, i, per))]

\* k Rule 30 transitions.
RECURSIVE R30Gen(_, _, _)
R30Gen(s, k, per) == IF k = 0 THEN s ELSE R30Next(R30Gen(s, k - 1, per), per)

Offsets == {d \in {-1, 0, 1} \X {-1, 0, 1} : d # <<0, 0>>}

\* Alive neighbours of cell (i, j) of grid s, cells outside the grid dead.
DeadBorderCount(s, i, j) ==
    Cardinality({d \in Offsets :
        /\ i + d[1] \in DOMAIN s
        /\ j + d[2] \in DOMAIN s[0]
        /\ s[i + d[1]][j + d[2]]})

\* Alive cells among the 8 toroidally wrapped neighbours of cell (i, j).
TorusCount(s, i, j) ==
    Cardinality({d \in Offsets :
        s[(i + d[1]) % Size(s)][(j + d[2]) % Cols(s)]})

\* Alive with 2 or 3 alive neighbours, or dead with exactly 3.
LifeRule(alive, count) == (alive /\ count \in {2, 3}) \/ (~alive /\ count = 3)

LifeNext(s) ==
    [i \in DOMAIN s |-> [j \in DOMAIN s[0] |-> LifeRule(s[i][j], DeadBorderCount(s, i, j))]]

RECURSIVE LifeGen(_, _)
LifeGen(s, k) == IF k = 0 THEN s ELSE LifeNext(LifeGen(s, k - 1))

\* The border of one generation mirrors the opposite edges of its interior.
BorderMirrors(lat, rows, cols) ==
    /\ \A j \in 1..cols : lat[0][j] = lat[rows][j] /\ lat[rows+1][j] = lat[1][j]
    /\ \A i \in 1..rows : lat[i][0] = lat[i][cols] /\ lat[i][cols+1] = lat[i][1]
    /\ lat[0][0] = lat[rows][cols]
    /\ lat[0][cols+1] = lat[rows][1]
    /\ lat[rows+1][0] = lat[1][cols]
    /\ lat[rows+1][cols+1] = lat[1][1]

Ended == pc \in {"returned", "returned_None", "raised_IndexError"}

(***************************************************************************)
(* Properties                                                              *)
(***************************************************************************)

\* C1: life(initial, nsteps) returns an R x C grid equal to generation
\* nsteps-1 of the dead-border Game of Life started from initial; for
\* nsteps = 1 that is initial itself.
C1_LifeReturnsLastGeneration ==
    (fn = "life" /\ Ended) =>
        /\ pc = "returned"
        /\ result = LifeGen(initial_state, nsteps - 1)

\* C2: every call of rule_thirty applies exactly nsteps-1 Rule 30
\* transitions, from generation 0 = initial, and returns generation
\* nsteps-1.
C2_ExactlyNstepsMinusOneTransitions ==
    fn = "rule_thirty" =>
        /\ pc = "while" =>
              /\ current_step <= nsteps - 1
              /\ current_state[current_step] = R30Gen(initial_state, current_step, periodic)
        /\ Ended =>
              /\ pc = "returned"
              /\ current_step = nsteps - 1
              /\ result = R30Gen(initial_state, nsteps - 1, periodic)

\* C3: with periodic=False, rule_thirty(initial, nsteps) returns the lattice
\* after nsteps transitions, as in the two documented examples.
C3_DocumentedExamples ==
    (fn = "rule_thirty" /\ ~periodic /\ pc = "returned") =>
        /\ result = R30Gen(initial_state, nsteps, FALSE)
        /\ (initial_state = Lat(<<FALSE, TRUE, FALSE>>) /\ nsteps = 1)
              => result = Lat(<<TRUE, TRUE, TRUE>>)
        /\ (initial_state = Lat(<<FALSE, FALSE, TRUE, FALSE, FALSE>>) /\ nsteps = 3)
              => result = Lat(<<TRUE, FALSE, TRUE, TRUE, TRUE>>)

\* C4: every cell of every generation computed by life_periodic follows the
\* Life rule applied to its own count of alive toroidal neighbours in the
\* previous generation.
C4_PeriodicCellsFromOwnCount ==
    (fn = "life_periodic" /\ pc \in {"while", "returned"}) =>
        \A g \in 1..current_step :
        \A i \in 1..Size(initial_state) : \A j \in 1..Cols(initial_state) :
            current_state[g][i][j] =
                LifeRule(current_state[g-1][i][j],
                         TorusCount(Interior(current_state[g-1], Size(initial_state),
                                             Cols(initial_state)), i - 1, j - 1))

\* C5: called on a 2 x 2 block strictly inside an all-dead grid, life and
\* life_periodic return the initial grid for every nsteps >= 1.
C5_BlockIsStillLife ==
    Ended => (pc = "returned" /\ result = initial_state)

\* C6: rule_thirty with periodic=True on a lattice shorter than 3 computes
\* no generation and never returns a lattice.
C6_ShortPeriodicRejected ==
    (fn = "rule_thirty" /\ periodic /\ Size(initial_state) < 3) =>
        /\ pc # "returned"
        /\ pc = "while" => current_step = 0

\* C7: for L >= 3 every completed transition of rule_thirty sets every cell
\* to left XOR (centre OR right) of the previous generation, with the
\* neighbours beyond the ends False (periodic=False) or wrapped
\* (periodic=True); the table is total on the 8 neighbourhoods.
C7_TransitionIsRule30 ==
    /\ DOMAIN thirty_rule = BOOLEAN \X BOOLEAN \X BOOLEAN
    /\ (fn = "rule_thirty" /\ Size(initial_state) >= 3 /\ pc \in {"while", "returned"}) =>
          \A g \in 1..current_step : \A i \in 0..Size(initial_state)-1 :
              current_state[g][i] =
                  Xor(R30Left(current_state[g-1], i, periodic),
                      current_state[g-1][i] \/ R30Right(current_state[g-1], i, periodic))

\* A periodic lattice whose cell 0 was switched on by the wrapped left
\* neighbour alone.
C7_Witness ==
    /\ fn = "rule_thirty" /\ periodic /\ Size(initial_state) >= 3
    /\ pc = "while" /\ current_step = 1
    /\ current_state[0][Size(initial_state)-1]
    /\ ~current_state[0][0] /\ ~current_state[0][1]
    /\ current_state[1][0]

\* C8: life(initial, 2) gives every cell, edge and corner cells included,
\* the Life rule applied to its count of alive neighbours in initial,
\* neighbours outside the grid dead.
C8_SingleLifeTransition ==
    (fn = "life" /\ nsteps = 2 /\ pc = "returned") =>
        \A i \in DOMAIN initial_state : \A j \in DOMAIN initial_state[0] :
            result[i][j] = LifeRule(initial_state[i][j], DeadBorderCount(initial_state, i, j))

\* C9: whenever life_periodic is about to read a generation to compute the
\* next one, the border of that generation mirrors its interior.
C9_BorderMirrorsWhenRead ==
    (fn = "life_periodic" /\ pc = "while" /\ WhileGuard(current_step, nsteps)) =>
        BorderMirrors(current_state[current_step], Size(initial_state), Cols(initial_state))

\* C10: an execution of the while body stores only into generation
\* current_step+1 and leaves every other generation of the buffer as it
\* was; in rule_thirty the generation it stores is the transition of
\* generation current_step as that generation stood before the body ran.
C10_OnlyNextGenerationWritten ==
    [][ pc = "while" =>
          /\ DOMAIN current_state' = DOMAIN current_state
          /\ \A g \in DOMAIN current_state :
                g # current_step + 1 => current_state'[g] = current_state[g]
          /\ (fn = "rule_thirty" /\ current_step' = current_step + 1) =>
                current_state'[current_step'] =
                    R30Next(current_state[current_step], periodic)
      ]_vars

\* A call of life_periodic that has computed a generation from an alive
\* generation 0 which is still in the buffer.
C10_Witness ==
    /\ fn = "life_periodic" /\ pc = "while" /\ current_step >= 1
    /\ \E i \in DOMAIN initial_state : \E j \in DOMAIN initial_state[0] : initial_state[i][j]
    /\ Interior(current_state[0], Size(initial_state), Cols(initial_state)) = initial_state

====
